---- MODULE Spec2Model ----
(***************************************************************************)
(* Model of the prop-comparison front end:                                 *)
(*   GameSelector          (event list, selection, events fetch)           *)
(*   PropComparisonTable   (props fetch, standard/alternate merge,         *)
(*                          PlayerProp transform, best-price highlight,    *)
(*                          search and sort of the displayed list)         *)
(* Source: src/components/prop-comparison/game-selector.tsx                *)
(*                                                                         *)
(* Conventions.  A JavaScript null / undefined / "" string is the empty    *)
(* string "" (all three are falsy where the code tests them).  An optional *)
(* object (gameData, a lookup result) is a sequence of length 0 or 1.      *)
(* A market key is a record [base, alt]: key.includes('alternate') is      *)
(* key.alt, and key.replace('_alternate', '') clears alt.  The fields      *)
(* title and last_update of a bookmaker are copied through unchanged by    *)
(* every operation and are not represented.                                *)
(***************************************************************************)
EXTENDS Integers, Sequences, FiniteSets, TLC

(***************************************************************************)
(* Bounds of the model.                                                    *)
(***************************************************************************)
MaxInFlight == 2     \* props requests in flight at once
MaxEventFetches == 1 \* events requests in flight at once
MaxSelectorFetches == 2 \* events requests in flight (selector specification)
MaxStdOutcomes == 2  \* outcomes of a raw standard market (normalizer inputs)
MaxAltOutcomes == 2  \* outcomes of a raw alternate market (normalizer inputs)
MaxEvents == 3       \* events of an events response (selector specification)

None == << >>
Some(x) == << x >>

(***************************************************************************)
(* Generic sequence helpers (Array.prototype.filter / some / find).        *)
(***************************************************************************)
Range(s) == { s[i] : i \in DOMAIN s }

\* s.filter(Test)
SeqFilter(s, Test(_)) == SelectSeq(s, Test)

\* s.findIndex(Test) + 1: the first position that passes, 0 when none does
FirstIndex(s, Test(_)) ==
  IF \E i \in DOMAIN s : Test(s[i])
  THEN CHOOSE i \in DOMAIN s :
         /\ Test(s[i])
         /\ \A j \in 1..(i - 1) : ~Test(s[j])
  ELSE 0

\* s.find(Test) as an optional value
Find(s, Test(_)) ==
  LET passing == SelectSeq(s, Test)
  IN IF passing = << >> THEN None ELSE Some(passing[1])

(***************************************************************************)
(* Outcomes.  Identity for deduplication is (name, point, description).    *)
(***************************************************************************)
Ident(o) == << o.name, o.point, o.description >>

SameIdent(a, b) ==
  /\ a.name = b.name
  /\ a.point = b.point
  /\ a.description = b.description

\* outcomes.some(o => same identity as x)
IsDuplicate(outcomes, x) == \E i \in DOMAIN outcomes : SameIdent(outcomes[i], x)

RECURSIVE InsertByPoint(_, _)
\* insert x after every element whose point is <= x.point (stable)
InsertByPoint(sorted, x) ==
  IF sorted = << >> THEN << x >>
  ELSE IF Head(sorted).point <= x.point
       THEN << Head(sorted) >> \o InsertByPoint(Tail(sorted), x)
       ELSE << x >> \o sorted

RECURSIVE SortByPointFrom(_, _)
SortByPointFrom(acc, s) ==
  IF s = << >> THEN acc
  ELSE SortByPointFrom(InsertByPoint(acc, Head(s)), Tail(s))

\* outcomes.sort((a, b) => a.point - b.point); Array.prototype.sort is stable
SortByPoint(s) == SortByPointFrom(<< >>, s)

(***************************************************************************)
(* Market vocabulary (lib/constants/markets, not part of the sources       *)
(* held here): a stat type maps to a provider market key, the alternate    *)
(* market has the same key suffixed "_alternate", and a stat type either   *)
(* supports alternate lines or not.                                        *)
(***************************************************************************)
Sports == { "basketball_nba", "hockey_nhl" }
StatTypes == { "Points", "Assists" }

MarketBase(sport, statType) ==
  IF statType = "Points" THEN "player_points" ELSE "player_assists"

\* getMarketApiKey(sport, statType, alternate)
getMarketApiKey(sport, statType, alternate) ==
  [base |-> MarketBase(sport, statType), alt |-> alternate]

\* currentMarket?.hasAlternates || false
hasAlternateLines(sport, statType) == statType = "Points"

\* currentMarket?.hasAlternates || currentMarket?.alwaysFetchAlternate ||
\* statType === 'batter_hits' || statType === 'batter_home_runs'
shouldFetchAlternate(sport, statType) == hasAlternateLines(sport, statType)

\* key.replace('_alternate', '')
StripAlternate(key) == [key EXCEPT !.alt = FALSE]

(***************************************************************************)
(* fetchPlayerProps, alternate path: combine the markets of each bookmaker *)
(***************************************************************************)
\* the mutant: the alternate outcomes are not merged in
CombineOutcomesStandardOnly(allOutcomes, alternateOutcomes) == allOutcomes

RECURSIVE CombineOutcomes(_, _)
\* allOutcomes = [...standard]; alternate.forEach(push unless duplicate)
CombineOutcomes(allOutcomes, alternateOutcomes) ==
  IF alternateOutcomes = << >> THEN allOutcomes
  ELSE CombineOutcomes(
         IF IsDuplicate(allOutcomes, Head(alternateOutcomes))
         THEN allOutcomes
         ELSE Append(allOutcomes, Head(alternateOutcomes)),
         Tail(alternateOutcomes))

\* standardMarkets.map(standardMarket => ...)
MergeStandardMarket(standardMarket, alternateMarkets) ==
  LET alternateMarket ==
        Find(alternateMarkets,
             LAMBDA m : StripAlternate(m.key) = standardMarket.key)
  IN IF alternateMarket = None THEN standardMarket
     ELSE [standardMarket EXCEPT
             !.outcomes = SortByPoint(
                CombineOutcomes(standardMarket.outcomes,
                                alternateMarket[1].outcomes))]

\* alternateMarkets.map(m => ({...m, key: m.key.replace('_alternate', '')}))
PromoteAlternate(alternateMarkets) ==
  [i \in DOMAIN alternateMarkets |->
     [alternateMarkets[i] EXCEPT !.key = StripAlternate(alternateMarkets[i].key)]]

\* responseData.bookmakers.map(book => ...)
CombineBook(book) ==
  LET standardMarkets == SeqFilter(book.markets,
                           LAMBDA m : ~m.key.alt)
      alternateMarkets == SeqFilter(book.markets,
                           LAMBDA m : m.key.alt)
  IN IF Len(standardMarkets) = 0 /\ Len(alternateMarkets) > 0
     THEN [book EXCEPT !.markets = PromoteAlternate(alternateMarkets)]
     ELSE [book EXCEPT !.markets =
             [i \in DOMAIN standardMarkets |->
                MergeStandardMarket(standardMarkets[i], alternateMarkets)]]

\* data = {...responseData, bookmakers: responseData.bookmakers.map(...)}
CombineMarkets(responseData) ==
  [responseData EXCEPT
     !.bookmakers = [i \in DOMAIN responseData.bookmakers |->
                       CombineBook(responseData.bookmakers[i])]]

(***************************************************************************)
(* playerProps: transform of gameData into the PlayerProp list             *)
(***************************************************************************)
\* Map.get(player) || []  on a Map kept as a sequence in insertion order
MapGet(playerOutcomes, player) ==
  LET hit == Find(playerOutcomes,
                  LAMBDA e : e.player = player)
  IN IF hit = None THEN << >> ELSE hit[1].outcomes

\* Map.set(player, outcomes): an existing key keeps its place
MapSet(playerOutcomes, player, outcomes) ==
  IF \E i \in DOMAIN playerOutcomes : playerOutcomes[i].player = player
  THEN [i \in DOMAIN playerOutcomes |->
          IF playerOutcomes[i].player = player
          THEN [player |-> player, outcomes |-> outcomes]
          ELSE playerOutcomes[i]]
  ELSE Append(playerOutcomes, [player |-> player, outcomes |-> outcomes])

\* the mutant: the duplicate test is dropped
GroupPushAlways(outcomes, outcome) == Append(outcomes, outcome)

\* if (!isDuplicate) outcomes.push(outcome)
GroupPush(outcomes, outcome) ==
  IF IsDuplicate(outcomes, outcome) THEN outcomes ELSE Append(outcomes, outcome)

\* !(!outcome.description)
IsAttributable(outcome) == outcome.description # ""

RECURSIVE GroupOutcomes(_, _)
\* allOutcomes.forEach(outcome => ...) building playerOutcomes
GroupOutcomes(playerOutcomes, allOutcomes) ==
  IF allOutcomes = << >> THEN playerOutcomes
  ELSE LET outcome == Head(allOutcomes)
       IN IF ~IsAttributable(outcome)
          THEN GroupOutcomes(playerOutcomes, Tail(allOutcomes))
          ELSE GroupOutcomes(
                 MapSet(playerOutcomes, outcome.description,
                        GroupPush(MapGet(playerOutcomes, outcome.description),
                                  outcome)),
                 Tail(allOutcomes))

\* the mutant: the per-player sort is left out
SortPlayerOutcomesSkipped(outcomes) == outcomes

\* outcomes.sort((a, b) => a.point - b.point)
SortPlayerOutcomes(outcomes) == SortByPoint(outcomes)

\* the mutant: the entry keeps the key of the alternate market
BookmakerEntryAlternateKey(bookmaker, standardMarketKey, outcomes) ==
  [key |-> bookmaker.key,
   markets |-> << [key |-> [standardMarketKey EXCEPT !.alt = TRUE],
                   outcomes |-> outcomes] >>]

\* the bookmaker entry pushed onto a PlayerProp
BookmakerEntry(bookmaker, standardMarketKey, outcomes) ==
  [key |-> bookmaker.key,
   markets |-> << [key |-> standardMarketKey, outcomes |-> outcomes] >>]

\* the mutant: a second PlayerProp is pushed for a player already present
HasExistingPropNever(props, player) == FALSE

\* props.find(p => p.player === player) is defined
HasExistingProp(props, player) == \E i \in DOMAIN props : props[i].player = player

\* body of playerOutcomes.forEach((outcomes, player) => ...)
AddPlayer(props, bookmaker, entry, home_team, statType, standardMarketKey) ==
  LET outcomes == SortPlayerOutcomes(entry.outcomes)
      player == entry.player
      overOutcome == Find(outcomes, LAMBDA o : o.name = "Over")
      bookEntry == BookmakerEntry(bookmaker, standardMarketKey, outcomes)
  IN IF HasExistingProp(props, player)
     THEN LET k == FirstIndex(props, LAMBDA p : p.player = player)
          IN [props EXCEPT ![k].bookmakers = Append(@, bookEntry)]
     ELSE Append(props,
            [player |-> player,
             team |-> home_team,
             statType |-> statType,
             line |-> IF overOutcome = None THEN 0 ELSE overOutcome[1].point,
             bookmakers |-> << bookEntry >>])

RECURSIVE AddPlayers(_, _, _, _, _, _)
AddPlayers(props, bookmaker, playerOutcomes, home_team, statType, key) ==
  IF playerOutcomes = << >> THEN props
  ELSE AddPlayers(
         AddPlayer(props, bookmaker, Head(playerOutcomes), home_team, statType, key),
         bookmaker, Tail(playerOutcomes), home_team, statType, key)

\* the mutant: the outcomes of the alternate market come first
AllOutcomesAlternateFirst(bookmaker, standardMarketKey, alternateMarketKey) ==
  LET standardMarket == Find(bookmaker.markets,
        LAMBDA m : m.key = standardMarketKey)
      alternateMarket == Find(bookmaker.markets,
        LAMBDA m : m.key = alternateMarketKey)
  IN (IF alternateMarket = None THEN << >> ELSE alternateMarket[1].outcomes)
     \o (IF standardMarket = None THEN << >> ELSE standardMarket[1].outcomes)

\* [...(standardMarket?.outcomes || []), ...(alternateMarket?.outcomes || [])]
AllOutcomes(bookmaker, standardMarketKey, alternateMarketKey) ==
  LET standardMarket == Find(bookmaker.markets,
        LAMBDA m : m.key = standardMarketKey)
      alternateMarket == Find(bookmaker.markets,
        LAMBDA m : m.key = alternateMarketKey)
  IN (IF standardMarket = None THEN << >> ELSE standardMarket[1].outcomes)
     \o (IF alternateMarket = None THEN << >> ELSE alternateMarket[1].outcomes)

\* body of gameData.bookmakers.forEach(bookmaker => ...)
AddBookmaker(props, bookmaker, home_team, sport, statType) ==
  LET standardMarketKey == getMarketApiKey(sport, statType, FALSE)
      alternateMarketKey == getMarketApiKey(sport, statType, TRUE)
      allOutcomes == AllOutcomes(bookmaker, standardMarketKey, alternateMarketKey)
  IN IF allOutcomes = << >> THEN props
     ELSE AddPlayers(props, bookmaker, GroupOutcomes(<< >>, allOutcomes),
                     home_team, statType, standardMarketKey)

RECURSIVE AddBookmakers(_, _, _, _, _)
AddBookmakers(props, bookmakers, home_team, sport, statType) ==
  IF bookmakers = << >> THEN props
  ELSE AddBookmakers(
         AddBookmaker(props, Head(bookmakers), home_team, sport, statType),
         Tail(bookmakers), home_team, sport, statType)

\* const playerProps = useMemo(...); data is the optional gameData
playerPropsOf(data, sport, statType) ==
  IF data = None THEN << >>
  ELSE AddBookmakers(<< >>, data[1].bookmakers, data[1].home_team, sport, statType)

(***************************************************************************)
(* Best price.  findBestOdds lives in lib/odds-api, outside the sources    *)
(* held here; it is modelled from its description: scan the bookmakers of  *)
(* the prop, take in each the outcome found for the side in the market of  *)
(* the given key, keep the one with the strictly greater price.            *)
(***************************************************************************)
RECURSIVE BestOddsFrom(_, _, _, _)
BestOddsFrom(best, bookmakers, marketKey, side) ==
  IF bookmakers = << >> THEN best
  ELSE LET bookmaker == Head(bookmakers)
           market == Find(bookmaker.markets,
                       LAMBDA m : m.key = marketKey)
           outcome == IF market = None THEN None
                      ELSE Find(market[1].outcomes,
                             LAMBDA o : o.name = side)
           better == /\ outcome # None
                     /\ (best = None \/ outcome[1].price > best[1].odds)
       IN BestOddsFrom(
            IF better
            THEN Some([bookmaker |-> bookmaker.key,
                       odds |-> outcome[1].price,
                       line |-> outcome[1].point])
            ELSE best,
            Tail(bookmakers), marketKey, side)

\* findBestOdds(prop, marketKey, side): optional {bookmaker, odds, line}
findBestOdds(prop, marketKey, side) ==
  BestOddsFrom(None, prop.bookmakers, marketKey, side)

\* formatAmericanOdds(odds): a leading "+" for positive odds, else as it is
formatAmericanOdds(odds) == [plus |-> odds > 0, digits |-> odds]

\* getBestOddsInfo(player)[side]
getBestOddsInfo(player, s, st, side) ==
  LET best == findBestOdds(player, getMarketApiKey(s, st, FALSE), side)
  IN [sportsbook |-> IF best = None THEN "" ELSE best[1].bookmaker,
      line |-> IF best = None THEN 0 ELSE best[1].line,
      odds |-> formatAmericanOdds(IF best = None THEN 0 ELSE best[1].odds)]

(***************************************************************************)
(* Search and sort (filteredProps).  A string that is searched is the      *)
(* sequence of its characters; searchQuery is such a sequence.             *)
(***************************************************************************)
\* the characters of the names that occur in the payloads
Chars(str) ==
  CASE str = "X" -> << "X" >>
    [] str = "Y" -> << "Y" >>
    [] str = "Home" -> << "H", "o", "m", "e" >>
    [] OTHER -> << >>

\* String.prototype.toLowerCase
LowerChar(c) ==
  CASE c = "X" -> "x" [] c = "Y" -> "y" [] c = "Z" -> "z"
    [] c = "H" -> "h" [] c = "O" -> "o" [] c = "M" -> "m" [] c = "E" -> "e"
    [] OTHER -> c

toLowerCase(chars) == [k \in DOMAIN chars |-> LowerChar(chars[k])]

\* String.prototype.includes
includes(chars, part) ==
  \E k \in 0..(Len(chars) - Len(part)) :
    SubSeq(chars, k + 1, k + Len(part)) = part

\* the mutant: the names are compared as they are written
MatchesQueryCaseSensitive(prop, query) ==
  \/ includes(Chars(prop.player), query)
  \/ (prop.team # "" /\ includes(Chars(prop.team), query))

\* prop.player.toLowerCase().includes(query) ||
\* (prop.team && prop.team.toLowerCase().includes(query))
MatchesQuery(prop, query) ==
  \/ includes(toLowerCase(Chars(prop.player)), query)
  \/ (prop.team # "" /\ includes(toLowerCase(Chars(prop.team)), query))

\* if (searchQuery) filtered = filtered.filter(...): a new array; without a
\* query filtered is the playerProps array itself
FilterProps(array, query) ==
  IF query = << >> THEN array
  ELSE SelectSeq(array, LAMBDA prop : MatchesQuery(prop, toLowerCase(query)))

\* a.localeCompare(b) for the player names of the payloads
localeCompare(a, b) ==
  LET rank(str) == IF str = "X" THEN 1 ELSE IF str = "Y" THEN 2 ELSE 0
  IN rank(a) - rank(b)

\* findBestOdds(prop, marketKey, "Over")?.odds || 0
BestOverOdds(prop, s, st) ==
  LET best == findBestOdds(prop, getMarketApiKey(s, st, FALSE), "Over")
  IN IF best = None THEN 0 ELSE best[1].odds

\* the mutant: best-odds mode compares the lower price first
ComparePropsAscending(a, b, mode, s, st) ==
  IF mode = "name" THEN localeCompare(a.player, b.player)
  ELSE IF mode = "best-odds" THEN BestOverOdds(a, s, st) - BestOverOdds(b, s, st)
  ELSE 0

\* the comparator of filtered.sort in the sort mode
CompareProps(a, b, mode, s, st) ==
  IF mode = "name" THEN localeCompare(a.player, b.player)
  ELSE IF mode = "best-odds" THEN BestOverOdds(b, s, st) - BestOverOdds(a, s, st)
  ELSE 0

\* Array.prototype.sort is stable: x goes before the first element that the
\* comparator puts after it
InsertProp(sorted, x, mode, s, st) ==
  LET k == FirstIndex(sorted, LAMBDA y : CompareProps(y, x, mode, s, st) > 0)
  IN IF k = 0 THEN Append(sorted, x)
     ELSE SubSeq(sorted, 1, k - 1) \o << x >> \o SubSeq(sorted, k, Len(sorted))

RECURSIVE SortPropsFrom(_, _, _, _, _)
SortPropsFrom(acc, array, mode, s, st) ==
  IF array = << >> THEN acc
  ELSE SortPropsFrom(InsertProp(acc, Head(array), mode, s, st), Tail(array),
                     mode, s, st)

\* filtered.sort(...) in the sort mode
SortProps(array, mode, s, st) == SortPropsFrom(<< >>, array, mode, s, st)

\* const filteredProps = useMemo(...), computed from the playerProps array
filteredPropsOf(array, query, mode, s, st) ==
  SortProps(FilterProps(array, query), mode, s, st)

\* the sorts that the playerProps array has undergone since it was built,
\* after one more in the sort mode.  Players are distinct, so a sort by name
\* leaves one order whatever the order before; a stable sort of an array
\* that the same comparator sorted last changes nothing.
SortedInPlace(sorts, mode) ==
  IF mode = "name" THEN << "name" >>
  ELSE IF sorts # << >> /\ sorts[Len(sorts)] = mode THEN sorts
  ELSE Append(sorts, mode)

\* the array that the transform built, after the sorts applied to it
RECURSIVE ApplySorts(_, _, _, _)
ApplySorts(array, sorts, s, st) ==
  IF sorts = << >> THEN array
  ELSE ApplySorts(SortProps(array, Head(sorts), s, st), Tail(sorts), s, st)

(***************************************************************************)
(* Desktop list: lines of a prop and the best price per line               *)
(***************************************************************************)
\* market of a bookmaker entry under marketKey, as a set of outcomes
EntryOutcomes(entry, marketKey) ==
  LET market == Find(entry.markets,
                  LAMBDA m : m.key = marketKey)
  IN IF market = None THEN << >> ELSE market[1].outcomes

\* allLines: every point of every attached bookmaker's market
allLines(prop, marketKey) ==
  { o.point : o \in UNION { Range(EntryOutcomes(prop.bookmakers[i], marketKey)) :
                              i \in DOMAIN prop.bookmakers } }

\* market.outcomes.find(o => o.name === side && o.point === line)
OutcomeAt(outcomes, side, line) ==
  Find(outcomes, LAMBDA o : o.name = side /\ o.point = line)

\* prices the attached bookmakers offer for (line, side)
AttachedPrices(prop, marketKey, side, line) ==
  { OutcomeAt(EntryOutcomes(prop.bookmakers[i], marketKey), side, line)[1].price :
      i \in { j \in DOMAIN prop.bookmakers :
                OutcomeAt(EntryOutcomes(prop.bookmakers[j], marketKey), side, line)
                  # None } }

SetMax(S) == CHOOSE x \in S : \A y \in S : y <= x

\* bestOddsPerLine.get(line)[side]: Math.max over the bookmakers attached to
\* the prop, as an optional value (none stands for -Infinity)
bestOddsPerLine(prop, marketKey, side, line) ==
  LET prices == AttachedPrices(prop, marketKey, side, line)
  IN IF prices = {} THEN None ELSE Some(SetMax(prices))

\* the cell of a selected sportsbook for (line, side): its outcome, if any
CellOutcome(prop, marketKey, bookmaker, side, line) ==
  LET bookmakerData == Find(prop.bookmakers,
                         LAMBDA b : b.key = bookmaker)
  IN IF bookmakerData = None THEN None
     ELSE OutcomeAt(EntryOutcomes(bookmakerData[1], marketKey), side, line)

\* isOverBest / isUnderBest of a cell
IsBestCell(prop, marketKey, bookmaker, side, line) ==
  LET cell == CellOutcome(prop, marketKey, bookmaker, side, line)
  IN /\ cell # None
     /\ Some(cell[1].price) = bestOddsPerLine(prop, marketKey, side, line)

(***************************************************************************)
(* State                                                                   *)
(***************************************************************************)
VARIABLES
  sport,               \* the sport prop of both components
  events,              \* GameSelector: events
  gsLoading,           \* GameSelector: loading
  gsError,             \* GameSelector: error ("" is null)
  gsSelectedEventId,   \* GameSelector: selectedEventId ("" is null)
  eventFetches,        \* events requests in flight, in issue order
  statType,            \* table: statType
  selectedEventId,     \* table: selectedEventId ("" is null or "")
  selectedSportsbooks, \* useSportsbookPreferences().selectedSportsbooks
  gameData,            \* table: gameData (optional)
  loading,             \* table: loading
  cacheStatus,         \* table: cacheStatus
  apiUsage,            \* table: apiUsage (optional)
  inflight,            \* props requests in flight, in issue order
  searchQuery,         \* table: searchQuery (sequence of characters)
  sortBy,              \* table: sortBy
  inPlaceSorts,        \* table: sort modes applied in place to playerProps
  activePlayerIndex,   \* table: activePlayerIndex (0-based)
  isMobile,            \* table: useMediaQuery("(max-width: 768px)")
  rawResp,             \* history: body of the last props response parsed
  last,                \* history: how the props fetch that ended last ended
  lastEvents,          \* history: how the events fetch that ended last ended
  eventsResp,          \* history: array of the last events response parsed
  lastHeaders          \* history: headers of the last props response read

gsVars == << events, gsLoading, gsError, gsSelectedEventId, eventFetches >>
fetchVars == << loading, inflight >>
dataVars == << gameData, cacheStatus, apiUsage >>
cardVars == << activePlayerIndex, isMobile >>
controlVars == << searchQuery, sortBy, cardVars >>
vars == << sport, events, gsLoading, gsError, gsSelectedEventId, eventFetches,
           statType, selectedEventId, selectedSportsbooks, gameData, loading,
           cacheStatus, apiUsage, inflight, searchQuery, sortBy, inPlaceSorts,
           activePlayerIndex, isMobile, rawResp, last,
           lastEvents, eventsResp, lastHeaders >>

(***************************************************************************)
(* The two HTTP services, as far as the components depend on them          *)
(***************************************************************************)
BookSelections == { << "A", "B" >>, << "B" >> }
EventIds == { "e1", "e2" }

\* e1 and e2 start on one calendar day, e3 on the next
Event(id) ==
  [id |-> id,
   commence_time |-> IF id = "e1" THEN 1 ELSE IF id = "e2" THEN 2 ELSE 3]

\* new Date(commence_time).toDateString()
toDateString(time) == IF time <= 2 THEN "day 1" ELSE "day 2"

\* bodies of GET /api/events that parse as an array
EventLists == { << >>, << Event("e1") >>, << Event("e2"), Event("e1") >> }

Outcome(name, point, price, description) ==
  [name |-> name, point |-> point, price |-> price, description |-> description]

PlayerOf(eventId) == IF eventId = "e1" THEN "X" ELSE "Y"

\* what a bookmaker offers for a player, per market
Offer(book, alt, player) ==
  IF book = "A"
  THEN IF alt
       THEN << Outcome("Over", 2, 150, player), Outcome("Over", 1, 125, player) >>
       ELSE << Outcome("Over", 1, 120, player), Outcome("Under", 1, -110, player) >>
  ELSE IF alt
       THEN << >>
       ELSE << Outcome("Over", 1, -110, player) >>

\* markets of one bookmaker in the response to a request
ServedMarkets(book, req) ==
  LET std == [key |-> getMarketApiKey(req.sport, req.statType, FALSE),
              outcomes |-> Offer(book, FALSE, PlayerOf(req.eventId))]
      alt == [key |-> getMarketApiKey(req.sport, req.statType, TRUE),
              outcomes |-> Offer(book, TRUE, PlayerOf(req.eventId))]
  IN IF req.alt /\ alt.outcomes # << >> THEN << std, alt >> ELSE << std >>

\* a well-formed GameOdds body for a request
ServedBody(req) ==
  [hasBookmakers |-> TRUE,
   home_team |-> "Home",
   bookmakers |-> [i \in DOMAIN req.books |->
                     [key |-> req.books[i],
                      markets |-> ServedMarkets(req.books[i], req)]]]

\* a body that parses but has no bookmakers list
MalformedBody == [hasBookmakers |-> FALSE, home_team |-> "", bookmakers |-> << >>]

parseInt(str) == IF str = "5" THEN 5 ELSE IF str = "1" THEN 1 ELSE 0

InitialCacheStatus == [hit |-> FALSE, lastUpdated |-> ""]

\* getDefaultMarket(sport)
getDefaultMarket(s) == "Points"

(***************************************************************************)
(* Rendering                                                               *)
(***************************************************************************)
\* the transform reads gameData.bookmakers.length: a TypeError during render
RenderThrows == gameData # None /\ ~gameData[1].hasBookmakers

\* once a render has thrown the tree is unmounted: no handler runs any more
Mounted == ~RenderThrows

playerProps ==
  IF RenderThrows THEN << >> ELSE playerPropsOf(gameData, sport, statType)

\* the playerProps array as the sorts of the renders so far have left it
propsArray == ApplySorts(playerProps, inPlaceSorts, sport, statType)

\* the displayed list
filteredProps ==
  filteredPropsOf(propsArray, searchQuery, sortBy, sport, statType)

\* the render that ends a step: playerProps is built anew when gameData,
\* statType or sport is new (recomputed), else it is the array of the
\* renders before; filteredProps is computed from it
ListRendered(recomputed) ==
  LET thrown == gameData' # None /\ ~gameData'[1].hasBookmakers
      built == IF recomputed THEN << >> ELSE inPlaceSorts
  IN inPlaceSorts' =
       IF thrown THEN << >>
       ELSE IF searchQuery' = << >> THEN SortedInPlace(built, sortBy')
       ELSE built

\* loading ? "Loading player props..." : isMobile ? mobile view : list
\* what the table shows on a viewport that is narrow (mobile) or wide
TableView(mobile) ==
  IF RenderThrows THEN "crashed"
  ELSE IF loading THEN "loading"
  ELSE IF mobile THEN "mobile" ELSE "list"

\* the mutant: an event always opens a group of its own
GroupEventAlone(groups, event) ==
  Append(groups, [date |-> toDateString(event.commence_time),
                  events |-> << event >>])

\* body of events.reduce((groups, event) => ...): the groups in the order
\* in which their dates were first met (Object.entries keeps that order)
GroupEvent(groups, event) ==
  LET date == toDateString(event.commence_time)
      k == FirstIndex(groups, LAMBDA g : g.date = date)
  IN IF k = 0 THEN Append(groups, [date |-> date, events |-> << event >>])
     ELSE [groups EXCEPT ![k].events = Append(@, event)]

RECURSIVE GroupEventsFrom(_, _)
GroupEventsFrom(groups, list) ==
  IF list = << >> THEN groups
  ELSE GroupEventsFrom(GroupEvent(groups, Head(list)), Tail(list))

\* const groupedEvents = events.reduce(..., {})
groupedEvents == GroupEventsFrom(<< >>, events)

\* if (loading) ...; if (error) ...; if (events.length === 0) ...; select
SelectorView ==
  IF gsLoading THEN "loading"
  ELSE IF gsError # "" THEN "error"
  ELSE IF events = << >> THEN "no-games" ELSE "select"

(***************************************************************************)
(* Initial state: both components mounted and their mount effects run      *)
(* (selection reset, onGameSelect(""), events fetch issued; the props      *)
(* effect returned early because no event is selected).                    *)
(***************************************************************************)
EventsRequest(s, capturedSelected) == [sport |-> s, selected |-> capturedSelected]

Init ==
  /\ sport \in Sports
  /\ events = << >>
  /\ gsLoading = TRUE
  /\ gsError = ""
  /\ gsSelectedEventId = ""
  /\ eventFetches = << EventsRequest(sport, "") >>
  /\ statType = getDefaultMarket(sport)
  /\ selectedEventId = ""
  /\ selectedSportsbooks \in BookSelections
  /\ gameData = None
  /\ loading = FALSE
  /\ cacheStatus = InitialCacheStatus
  /\ apiUsage = None
  /\ inflight = << >>
  /\ searchQuery = << >>
  /\ sortBy = "name"
  /\ inPlaceSorts = << "name" >>
  /\ activePlayerIndex = 0
  /\ isMobile = FALSE
  /\ rawResp = None
  /\ last = "none"
  /\ lastEvents = "none"
  /\ eventsResp = None
  /\ lastHeaders = None

(***************************************************************************)
(* The props effect (fetchPlayerProps up to its first await)               *)
(***************************************************************************)
PropsRequest(eventId, s, st, books) ==
  [eventId |-> eventId, sport |-> s, statType |-> st,
   books |-> books, alt |-> shouldFetchAlternate(s, st)]

\* the mutant: the effect has no early return
AfterPropsEffectUnguarded(calls, eventId, s, st, books) ==
  Append(calls, PropsRequest(eventId, s, st, books))

\* the pending calls after the effect ran with the values of one render:
\* if (!selectedEventId) return; setLoading(true); fetch(...)
AfterPropsEffect(calls, eventId, s, st, books) ==
  IF eventId = "" THEN calls
  ELSE Append(calls, PropsRequest(eventId, s, st, books))

\* the effects of the renders of one commit sequence have left calls pending:
\* setLoading(true) ran if one of them got past the early return
PropsEffectsRan(calls) ==
  /\ Len(calls) <= MaxInFlight
  /\ inflight' = calls
  /\ loading' = (loading \/ calls # inflight)

\* the effect run with the values (eventId, s, st, books) of one render
RunPropsEffect(eventId, s, st, books) ==
  PropsEffectsRan(AfterPropsEffect(inflight, eventId, s, st, books))

RemoveAt(seq, i) == [j \in 1..(Len(seq) - 1) |-> IF j < i THEN seq[j] ELSE seq[j + 1]]

(***************************************************************************)
(* The table as its parent and GameSelector drive it                       *)
(***************************************************************************)
\* the mutant: the new sport prop resets the held odds
SportPropChangesClearingData(s) ==
  LET first == AfterPropsEffect(inflight, selectedEventId, s, statType,
                                selectedSportsbooks)
      second == IF selectedEventId # ""
                THEN AfterPropsEffect(first, "", s, statType, selectedSportsbooks)
                ELSE first
  IN /\ sport' = s
     /\ selectedEventId' = ""
     /\ PropsEffectsRan(second)
     /\ gameData' = None
     /\ UNCHANGED << statType, selectedSportsbooks, cacheStatus, apiUsage >>
     /\ UNCHANGED controlVars
     /\ ListRendered(TRUE)

\* the table is rendered with a new sport prop: its props effect runs with
\* the selectedEventId of that render; GameSelector's reset effect of the
\* same commit calls onGameSelect(""), and if that changes selectedEventId
\* the table renders again and its props effect runs with ""
SportPropChanges(s) ==
  LET first == AfterPropsEffect(inflight, selectedEventId, s, statType,
                                selectedSportsbooks)
      second == IF selectedEventId # ""
                THEN AfterPropsEffect(first, "", s, statType, selectedSportsbooks)
                ELSE first
  IN /\ sport' = s
     /\ selectedEventId' = ""
     /\ PropsEffectsRan(second)
     /\ UNCHANGED << statType, selectedSportsbooks >>
     /\ UNCHANGED dataVars
     /\ UNCHANGED controlVars
     /\ ListRendered(TRUE)

\* onGameSelect={setSelectedEventId}: a changed value renders the table
\* again and runs its props effect
onGameSelect(eventId) ==
  /\ selectedEventId' = eventId
  /\ IF eventId # selectedEventId
     THEN RunPropsEffect(eventId, sport, statType, selectedSportsbooks)
     ELSE UNCHANGED fetchVars
  /\ UNCHANGED << sport, statType, selectedSportsbooks >>
  /\ UNCHANGED dataVars
  /\ UNCHANGED << controlVars, inPlaceSorts >>

(***************************************************************************)
(* GameSelector                                                            *)
(***************************************************************************)
\* the mutant: the reset effect of lines 35-40 is missing
GsSportChangesNoReset(s) ==
  /\ gsError' = ""
  /\ gsLoading' = TRUE
  /\ eventFetches' = Append(eventFetches, EventsRequest(s, gsSelectedEventId))
  /\ UNCHANGED << events, gsSelectedEventId >>

\* GameSelector on a new sport prop: the reset effect (setSelectedEventId(null),
\* setError(null)) and the events effect up to its first await (setLoading(true),
\* setError(null), fetch), which captures the selectedEventId of its render
GsSportChanges(s) ==
  /\ gsSelectedEventId' = ""
  /\ gsError' = ""
  /\ gsLoading' = TRUE
  /\ eventFetches' = Append(eventFetches, EventsRequest(s, gsSelectedEventId))
  /\ UNCHANGED events

\* the sport prop changes: the reset effect and the events effect run
ChangeSport(s) ==
  /\ Mounted
  /\ s # sport
  /\ GsSportChanges(s)
  /\ SportPropChanges(s)

\* data.sort((a, b) => time(a) - time(b))
RECURSIVE InsertByTime(_, _)
InsertByTime(sorted, e) ==
  IF sorted = << >> THEN << e >>
  ELSE IF Head(sorted).commence_time <= e.commence_time
       THEN << Head(sorted) >> \o InsertByTime(Tail(sorted), e)
       ELSE << e >> \o sorted

RECURSIVE SortByTimeFrom(_, _)
SortByTimeFrom(acc, s) ==
  IF s = << >> THEN acc ELSE SortByTimeFrom(InsertByTime(acc, Head(s)), Tail(s))

sortedEvents(data) == SortByTimeFrom(<< >>, data)

\* if (sortedEvents.length > 0 && !selectedEventId), with the selectedEventId
\* of the render whose effect issued the request
AutoSelects(req, sorted) == Len(sorted) > 0 /\ req.selected = ""

\* the id fetchEvents passes to onGameSelect on success; when it passes none
\* the parent keeps current
NotifiedOnSuccess(i, data, current) ==
  LET sorted == sortedEvents(data)
  IN IF AutoSelects(eventFetches[i], sorted) THEN sorted[1].id ELSE current

\* GameSelector when fetchEvents resolves with an array
GsEventsSucceed(i, data) ==
  LET sorted == sortedEvents(data)
  IN /\ eventFetches' = RemoveAt(eventFetches, i)
     /\ events' = sorted
     /\ gsLoading' = FALSE
     /\ gsSelectedEventId' = NotifiedOnSuccess(i, data, gsSelectedEventId)
     /\ UNCHANGED gsError

\* fetchEvents resolves with an array
EventsSucceed(i, data) ==
  /\ Mounted
  /\ GsEventsSucceed(i, data)
  /\ onGameSelect(NotifiedOnSuccess(i, data, selectedEventId))

\* GameSelector when fetchEvents throws: catch and finally
GsEventsFail(i, message) ==
  /\ eventFetches' = RemoveAt(eventFetches, i)
  /\ gsError' = message
  /\ events' = << >>
  /\ gsLoading' = FALSE
  /\ UNCHANGED gsSelectedEventId

\* GameSelector, Retry button: setError(null); setLoading(true)
GsRetry ==
  /\ SelectorView = "error"
  /\ gsError' = ""
  /\ gsLoading' = TRUE
  /\ UNCHANGED << events, gsSelectedEventId, eventFetches >>

\* the mutant: handleGameSelect without setSelectedEventId(eventId)
GsHandleGameSelectParentOnly(eventId) ==
  /\ SelectorView = "select"
  /\ \E i \in DOMAIN events : events[i].id = eventId
  /\ eventId # gsSelectedEventId
  /\ UNCHANGED << events, gsLoading, gsError, eventFetches,
                  gsSelectedEventId >>

\* GameSelector, handleGameSelect(eventId) from the select control
GsHandleGameSelect(eventId) ==
  /\ SelectorView = "select"
  /\ \E i \in DOMAIN events : events[i].id = eventId
  /\ eventId # gsSelectedEventId
  /\ gsSelectedEventId' = eventId
  /\ UNCHANGED << events, gsLoading, gsError, eventFetches >>

\* the table while GameSelector alone changes
TableUnchanged ==
  /\ UNCHANGED << sport, statType, selectedEventId, selectedSportsbooks >>
  /\ UNCHANGED fetchVars
  /\ UNCHANGED dataVars
  /\ UNCHANGED << controlVars, inPlaceSorts >>

\* fetchEvents throws: network error, !response.ok, json() rejects, or the
\* body is not an array
EventsFail(i, message) == Mounted /\ GsEventsFail(i, message) /\ TableUnchanged

\* Retry button
Retry == Mounted /\ GsRetry /\ TableUnchanged

\* handleGameSelect(eventId)
handleGameSelect(eventId) ==
  Mounted /\ GsHandleGameSelect(eventId) /\ onGameSelect(eventId)

(***************************************************************************)
(* PropComparisonTable                                                     *)
(***************************************************************************)
\* the stat type select: setStatType(value), then the props effect
ChangeStatType(st) ==
  /\ Mounted
  /\ st # statType
  /\ statType' = st
  /\ RunPropsEffect(selectedEventId, sport, st, selectedSportsbooks)
  /\ UNCHANGED << sport, selectedEventId, selectedSportsbooks >>
  /\ UNCHANGED gsVars
  /\ UNCHANGED dataVars
  /\ UNCHANGED controlVars
  /\ ListRendered(TRUE)

\* the sportsbook selector changes the shared preference, then the props effect
ChangeSportsbooks(books) ==
  /\ Mounted
  /\ books # selectedSportsbooks
  /\ selectedSportsbooks' = books
  /\ RunPropsEffect(selectedEventId, sport, statType, books)
  /\ UNCHANGED << sport, statType, selectedEventId >>
  /\ UNCHANGED gsVars
  /\ UNCHANGED dataVars
  /\ UNCHANGED << controlVars, inPlaceSorts >>

\* the search box: onChange={(e) => setSearchQuery(e.target.value)}
setSearchQuery(query) ==
  /\ Mounted
  /\ query # searchQuery
  /\ searchQuery' = query
  /\ UNCHANGED << sortBy, cardVars >>
  /\ UNCHANGED << sport, statType, selectedEventId, selectedSportsbooks >>
  /\ UNCHANGED gsVars
  /\ UNCHANGED fetchVars
  /\ UNCHANGED dataVars
  /\ ListRendered(FALSE)

\* the sort menu: onClick={() => setSortBy("name")}, setSortBy("best-odds")
setSortBy(mode) ==
  /\ Mounted
  /\ mode # sortBy
  /\ sortBy' = mode
  /\ UNCHANGED << searchQuery, cardVars >>
  /\ UNCHANGED << sport, statType, selectedEventId, selectedSportsbooks >>
  /\ UNCHANGED gsVars
  /\ UNCHANGED fetchVars
  /\ UNCHANGED dataVars
  /\ ListRendered(FALSE)

\* the mutant: the catch block resets the data
GameDataAfterThrowCleared(data) == None

\* catch (error) { console.error(...) }: gameData is not written
GameDataAfterThrow(data) == data

\* fetch rejects, !response.ok, or response.json() rejects: nothing was set
\* before the throw; catch logs; finally setLoading(false)
PropsFail(i, cause) ==
  /\ Mounted
  /\ inflight' = RemoveAt(inflight, i)
  /\ loading' = FALSE
  /\ gameData' = GameDataAfterThrow(gameData)
  /\ UNCHANGED << sport, statType, selectedEventId, selectedSportsbooks,
                  cacheStatus, apiUsage >>
  /\ UNCHANGED gsVars
  /\ UNCHANGED << controlVars, inPlaceSorts >>

\* setCacheStatus({hit, lastUpdated})
CacheStatusOf(headers) ==
  [hit |-> headers.cache = "HIT", lastUpdated |-> headers.lastUpdated]

\* if (remaining && used) setApiUsage({...})
ApiUsageAfter(usage, headers) ==
  IF headers.remaining # "" /\ headers.used # ""
  THEN Some([remaining |-> parseInt(headers.remaining),
             used |-> parseInt(headers.used)])
  ELSE usage

\* the mutant: a response is stored only if it answers the newest request
StoresResponseFenced(req, body) ==
  /\ req = inflight[Len(inflight)]
  /\ (req.alt => body.hasBookmakers)

\* whether the parsed body reaches setGameData: on the alternate path
\* responseData.bookmakers.map throws when there is no bookmakers list
StoresResponse(req, body) == req.alt => body.hasBookmakers

\* data handed to setGameData
DataOf(req, body) == IF req.alt THEN CombineMarkets(body) ELSE body

\* the response arrives with status OK and a body that parses
PropsRespond(i, body, headers) ==
  LET req == inflight[i]
      stored == StoresResponse(req, body)
  IN /\ Mounted
     /\ inflight' = RemoveAt(inflight, i)
     /\ loading' = FALSE
     /\ cacheStatus' = CacheStatusOf(headers)
     /\ apiUsage' = ApiUsageAfter(apiUsage, headers)
     /\ gameData' = IF stored THEN Some(DataOf(req, body))
                    ELSE GameDataAfterThrow(gameData)
     /\ UNCHANGED << sport, statType, selectedEventId, selectedSportsbooks >>
     /\ UNCHANGED gsVars
     /\ UNCHANGED controlVars
     /\ ListRendered(stored)

(***************************************************************************)
(* Specification of the two components together.  Once the render has      *)
(* thrown the tree is unmounted and no handler runs any more.              *)
(***************************************************************************)
FailureCauses == { "network", "status", "parse" }
EventsErrors == { "Failed to fetch events", "Invalid response format" }

\* headers of the responses in the composition
FullHeaders ==
  [cache |-> "HIT", lastUpdated |-> "t1", remaining |-> "5", used |-> "1"]

(***************************************************************************)
(* History.  last: how the props fetch that ended last ended ("failed":    *)
(* fetch rejected, status not OK or body unparsable; "malformed": body     *)
(* parsed, no bookmakers list; "ok": body parsed, with a bookmakers list). *)
(* rawResp: the body parsed last, recorded by the normalizer specification.*)
(* lastEvents: how the events fetch that ended last ended ("list", "empty",*)
(* "failed"), recorded by the selector specification, as is eventsResp,    *)
(* the array that the events response parsed last carried.  lastHeaders:   *)
(* the headers of the props response read last, recorded by the metadata   *)
(* specification.                                                          *)
(***************************************************************************)
KindOf(body) == IF body.hasBookmakers THEN "ok" ELSE "malformed"

\* history of a step that ends no props fetch
HistoryOfOther ==
  UNCHANGED << rawResp, last, lastEvents, eventsResp, lastHeaders >>

\* history of a step that ends a props fetch as kind
HistoryOfEnd(kind) ==
  last' = kind /\ UNCHANGED << rawResp, lastEvents, eventsResp, lastHeaders >>

Next ==
  \/ \E s \in Sports :
       /\ Len(eventFetches) < MaxEventFetches
       /\ ChangeSport(s) /\ HistoryOfOther
  \/ \E i \in DOMAIN eventFetches : \E data \in EventLists :
       EventsSucceed(i, data) /\ HistoryOfOther
  \/ \E i \in DOMAIN eventFetches : \E m \in EventsErrors :
       EventsFail(i, m) /\ HistoryOfOther
  \/ Retry /\ HistoryOfOther
  \/ \E e \in EventIds : handleGameSelect(e) /\ HistoryOfOther
  \/ \E st \in StatTypes : ChangeStatType(st) /\ HistoryOfOther
  \/ \E books \in BookSelections : ChangeSportsbooks(books) /\ HistoryOfOther
  \/ \E i \in DOMAIN inflight : \E c \in FailureCauses :
       PropsFail(i, c) /\ HistoryOfEnd("failed")
  \/ \E i \in DOMAIN inflight :
       \E body \in { ServedBody(inflight[i]), MalformedBody } :
         PropsRespond(i, body, FullHeaders) /\ HistoryOfEnd(KindOf(body))

Spec == Init /\ [][Next]_vars

(***************************************************************************)
(* Specification of the table alone.  GameSelector is its environment: it  *)
(* calls onGameSelect with the id of an event (auto-select or the select   *)
(* control) and answers a change of the sport prop with onGameSelect("").  *)
(***************************************************************************)
TableNext ==
  \/ \E s \in Sports :
       /\ Mounted /\ s # sport
       /\ SportPropChanges(s) /\ UNCHANGED gsVars /\ HistoryOfOther
  \/ \E e \in EventIds :
       /\ Mounted /\ e # selectedEventId
       /\ onGameSelect(e) /\ UNCHANGED gsVars /\ HistoryOfOther
  \/ \E st \in StatTypes : ChangeStatType(st) /\ HistoryOfOther
  \/ \E books \in BookSelections : ChangeSportsbooks(books) /\ HistoryOfOther
  \/ \E i \in DOMAIN inflight : \E c \in FailureCauses :
       PropsFail(i, c) /\ HistoryOfEnd("failed")
  \/ \E i \in DOMAIN inflight :
       \E body \in { ServedBody(inflight[i]), MalformedBody } :
         PropsRespond(i, body, FullHeaders) /\ HistoryOfEnd(KindOf(body))

SpecTable == Init /\ [][TableNext]_vars

(***************************************************************************)
(* Specification of the selector.  GameSelector with the part of its       *)
(* parent that it drives: the sport prop and the event id that             *)
(* onGameSelect stores.  The props fetches of the table are left out, so   *)
(* that events requests can overlap (a sport change while the events of    *)
(* the former sport are still being fetched).                              *)
(***************************************************************************)
\* onGameSelect = setSelectedEventId of the parent, its effects left out
ParentStores(eventId) ==
  /\ selectedEventId' = eventId
  /\ UNCHANGED << statType, selectedSportsbooks >>
  /\ UNCHANGED fetchVars
  /\ UNCHANGED dataVars
  /\ UNCHANGED << controlVars, inPlaceSorts >>

\* how an events fetch that resolved with the array data ended
EventsKindOf(data) == IF data = << >> THEN "empty" ELSE "list"

SelectorEventIds == { "e1", "e2", "e3" }

\* bodies of GET /api/events that parse as an array: up to MaxEvents events
\* with distinct ids, in any order
SelectorEventLists ==
  UNION { { list \in [1..n -> { Event(id) : id \in SelectorEventIds }] :
              \A i, j \in 1..n : i # j => list[i].id # list[j].id } :
          n \in 0..MaxEvents }

SelectorHistory(kind, body) ==
  /\ lastEvents' = kind /\ eventsResp' = body
  /\ UNCHANGED << rawResp, last, lastHeaders >>

SelectorNext ==
  \/ \E s \in Sports :
       /\ s # sport /\ Len(eventFetches) < MaxSelectorFetches
       /\ sport' = s /\ GsSportChanges(s) /\ ParentStores("")
       /\ HistoryOfOther
  \/ \E i \in DOMAIN eventFetches : \E data \in SelectorEventLists :
       /\ GsEventsSucceed(i, data)
       /\ ParentStores(NotifiedOnSuccess(i, data, selectedEventId))
       /\ UNCHANGED sport /\ SelectorHistory(EventsKindOf(data), Some(data))
  \/ \E i \in DOMAIN eventFetches : \E m \in EventsErrors :
       GsEventsFail(i, m) /\ TableUnchanged /\ SelectorHistory("failed", None)
  \/ GsRetry /\ TableUnchanged /\ HistoryOfOther
  \/ \E e \in SelectorEventIds :
       /\ GsHandleGameSelect(e) /\ ParentStores(e)
       /\ UNCHANGED sport /\ HistoryOfOther

SpecSelector == Init /\ [][SelectorNext]_vars

(***************************************************************************)
(* Specification of the normalizer: one props request is in flight (an     *)
(* event is selected, the stat type is either one) and its response        *)
(* carries any body of NormBodies.  The price of a raw outcome is given by *)
(* its bookmaker, market and position, so that the copies of one identity  *)
(* differ in price.                                                        *)
(***************************************************************************)
Identities ==
  { << "Over", 1, "X" >>, << "Over", 2, "X" >>, << "Under", 1, "X" >>,
    << "Over", 1, "Y" >>, << "Over", 1, "" >> }

PriceAt(book, alt, k) ==
  IF book = "A"
  THEN IF alt THEN << 150, -105, 140, 110 >>[k] ELSE << -110, 120, 105, -115 >>[k]
  ELSE IF alt THEN << -120, 115, 100, 125 >>[k] ELSE << 130, -125, 135, -130 >>[k]

\* the raw outcome lists of a market: up to max identities, priced by position
RawOutcomeLists(book, alt, max) ==
  UNION { { [k \in 1..n |->
              Outcome(ids[k][1], ids[k][2], PriceAt(book, alt, k), ids[k][3])] :
            ids \in [1..n -> Identities] } : n \in 0..max }

\* the market lists of bookmaker A: each of the two markets absent or present
RawMarketsA(st) ==
  LET stdKey == getMarketApiKey("basketball_nba", st, FALSE)
      altKey == getMarketApiKey("basketball_nba", st, TRUE)
      stds == { << >> } \cup
              { << [key |-> stdKey, outcomes |-> os] >> :
                  os \in RawOutcomeLists("A", FALSE, MaxStdOutcomes) }
      alts == { << >> } \cup
              { << [key |-> altKey, outcomes |-> os] >> :
                  os \in RawOutcomeLists("A", TRUE, MaxAltOutcomes) }
  IN { sm \o am : sm \in stds, am \in alts }

\* the market lists of bookmaker B
RawMarketsB(st) ==
  LET stdKey == getMarketApiKey("basketball_nba", st, FALSE)
      altKey == getMarketApiKey("basketball_nba", st, TRUE)
  IN { << >>,
       << [key |-> stdKey, outcomes |-> << Outcome("Over", 1, 130, "Y"),
                                           Outcome("Over", 2, -125, "") >>] >>,
       << [key |-> altKey, outcomes |-> << Outcome("Under", 2, -120, "X"),
                                           Outcome("Over", 1, 115, "X") >>] >> }

NormBodies(req) ==
  { [hasBookmakers |-> TRUE,
     home_team |-> "Home",
     bookmakers |-> << [key |-> "A", markets |-> ma], [key |-> "B", markets |-> mb] >>] :
      ma \in RawMarketsA(req.statType), mb \in RawMarketsB(req.statType) }

NormInit ==
  /\ sport = "basketball_nba"
  /\ events = << Event("e1") >>
  /\ gsLoading = FALSE
  /\ gsError = ""
  /\ gsSelectedEventId = "e1"
  /\ eventFetches = << >>
  /\ statType \in StatTypes
  /\ selectedEventId = "e1"
  /\ selectedSportsbooks = << "A", "B" >>
  /\ gameData = None
  /\ loading = TRUE
  /\ cacheStatus = InitialCacheStatus
  /\ apiUsage = None
  /\ inflight = << PropsRequest("e1", sport, statType, selectedSportsbooks) >>
  /\ searchQuery = << >>
  /\ sortBy = "name"
  /\ inPlaceSorts = << "name" >>
  /\ activePlayerIndex = 0
  /\ isMobile = FALSE
  /\ rawResp = None
  /\ last = "none"
  /\ lastEvents = "none"
  /\ eventsResp = None
  /\ lastHeaders = None

NormNext ==
  /\ inflight # << >>
  /\ \E body \in NormBodies(inflight[1]) :
    /\ PropsRespond(1, body, FullHeaders)
    /\ rawResp' = Some(body)
    /\ last' = KindOf(body)
    /\ UNCHANGED << lastEvents, eventsResp, lastHeaders >>

SpecNorm == NormInit /\ [][NormNext]_vars

(***************************************************************************)
(* Specification of search and sort: the response of the one props request *)
(* in flight carries any body of FilterBodies, and the user edits the      *)
(* search box and picks sort modes, before and after the response.         *)
(***************************************************************************)
FilterIdentities ==
  { << "Over", 1, "X" >>, << "Under", 1, "X" >>,
    << "Over", 1, "Y" >>, << "Under", 1, "Y" >> }

\* what the user types into the search box
Queries == { << >>, << "x" >>, << "X" >>, << "o", "m" >>, << "z" >> }

SortModes == { "name", "best-odds" }

\* bookmaker A lists up to MaxStdOutcomes outcomes in its standard market,
\* bookmaker B is as in the normalizer specification
FilterBodies(req) ==
  LET stdKey == getMarketApiKey("basketball_nba", req.statType, FALSE)
      lists == UNION { { [k \in 1..n |->
                           Outcome(ids[k][1], ids[k][2],
                                   PriceAt("A", FALSE, k), ids[k][3])] :
                         ids \in [1..n -> FilterIdentities] } :
                       n \in 0..MaxStdOutcomes }
  IN { [hasBookmakers |-> TRUE,
        home_team |-> home,
        bookmakers |-> << [key |-> "A",
                           markets |-> << [key |-> stdKey, outcomes |-> os] >>],
                          [key |-> "B", markets |-> mb] >>] :
         home \in { "Home", "" }, os \in lists,
         mb \in RawMarketsB(req.statType) }

FilterNext ==
  \/ /\ inflight # << >>
     /\ \E body \in FilterBodies(inflight[1]) :
          /\ PropsRespond(1, body, FullHeaders)
          /\ rawResp' = Some(body)
          /\ last' = KindOf(body)
          /\ UNCHANGED << lastEvents, eventsResp, lastHeaders >>
  \/ \E query \in Queries : setSearchQuery(query) /\ HistoryOfOther
  \/ \E mode \in SortModes : setSortBy(mode) /\ HistoryOfOther

SpecFilter == NormInit /\ [][FilterNext]_vars

(***************************************************************************)
(* Specification of the card view: search and sort as above on a viewport  *)
(* of any width, with the navigation of the card view, and with changes of *)
(* the stat type, each of which loads the data again.                      *)
(***************************************************************************)
\* const currentPlayer = filteredProps[activePlayerIndex], as an optional
currentPlayer ==
  IF activePlayerIndex < Len(filteredProps)
  THEN Some(filteredProps[activePlayerIndex + 1])
  ELSE None

\* loading ? ... : isMobile ? renderMobileView() : ..., and
\* if (!currentPlayer) return null: the card with its two buttons is shown
CardShown == Mounted /\ ~loading /\ isMobile /\ currentPlayer # None

\* the right arrow, disabled={activePlayerIndex === filteredProps.length - 1}:
\* if (activePlayerIndex < filteredProps.length - 1)
\*   setActivePlayerIndex(activePlayerIndex + 1)
nextPlayer ==
  /\ CardShown
  /\ activePlayerIndex # Len(filteredProps) - 1
  /\ activePlayerIndex < Len(filteredProps) - 1
  /\ activePlayerIndex' = activePlayerIndex + 1
  /\ UNCHANGED << sport, statType, selectedEventId, selectedSportsbooks >>
  /\ UNCHANGED << gsVars, fetchVars, dataVars >>
  /\ UNCHANGED << searchQuery, sortBy, isMobile, inPlaceSorts >>

\* the left arrow, disabled={activePlayerIndex === 0}:
\* if (activePlayerIndex > 0) setActivePlayerIndex(activePlayerIndex - 1)
prevPlayer ==
  /\ CardShown
  /\ activePlayerIndex # 0
  /\ activePlayerIndex > 0
  /\ activePlayerIndex' = activePlayerIndex - 1
  /\ UNCHANGED << sport, statType, selectedEventId, selectedSportsbooks >>
  /\ UNCHANGED << gsVars, fetchVars, dataVars >>
  /\ UNCHANGED << searchQuery, sortBy, isMobile, inPlaceSorts >>

\* the viewport crosses 768px: useMediaQuery yields the other value
Resize ==
  /\ Mounted
  /\ isMobile' = ~isMobile
  /\ UNCHANGED << sport, statType, selectedEventId, selectedSportsbooks >>
  /\ UNCHANGED << gsVars, fetchVars, dataVars >>
  /\ UNCHANGED << searchQuery, sortBy, activePlayerIndex, inPlaceSorts >>

\* the bodies of FilterBodies in which bookmaker A alone lists outcomes
CardBodies(req) ==
  { body \in FilterBodies(req) :
      body.home_team = "Home" /\ body.bookmakers[2].markets = << >> }

CardsNext ==
  \/ \E i \in DOMAIN inflight : \E body \in CardBodies(inflight[i]) :
       /\ PropsRespond(i, body, FullHeaders)
       /\ rawResp' = Some(body)
       /\ last' = KindOf(body)
       /\ UNCHANGED << lastEvents, eventsResp, lastHeaders >>
  \/ \E st \in StatTypes : ChangeStatType(st) /\ HistoryOfOther
  \/ \E query \in Queries : setSearchQuery(query) /\ HistoryOfOther
  \/ \E mode \in SortModes : setSortBy(mode) /\ HistoryOfOther
  \/ nextPlayer /\ HistoryOfOther
  \/ prevPlayer /\ HistoryOfOther
  \/ Resize /\ HistoryOfOther

SpecCards == NormInit /\ [][CardsNext]_vars

(***************************************************************************)
(* Specification of the metadata: the table with an event selected; the    *)
(* stat type and the sportsbooks change, each change loading the data      *)
(* again; a props fetch fails, or its response carries a well-formed or a  *)
(* malformed body and any headers of ResponseHeaders.                      *)
(***************************************************************************)
\* response.headers.get(...) of x-cache, x-last-updated,
\* x-requests-remaining and x-requests-used ("" is null: header absent)
ResponseHeaders ==
  [cache : { "HIT", "MISS" }, lastUpdated : { "t1", "" },
   remaining : { "5", "1", "" }, used : { "1", "" }]

MetaNext ==
  \/ \E st \in StatTypes : ChangeStatType(st) /\ HistoryOfOther
  \/ \E books \in BookSelections : ChangeSportsbooks(books) /\ HistoryOfOther
  \/ \E i \in DOMAIN inflight : \E c \in FailureCauses :
       PropsFail(i, c) /\ HistoryOfEnd("failed")
  \/ \E i \in DOMAIN inflight :
       \E body \in { ServedBody(inflight[i]), MalformedBody } :
         \E headers \in ResponseHeaders :
           /\ PropsRespond(i, body, headers)
           /\ last' = KindOf(body)
           /\ lastHeaders' = Some(headers)
           /\ UNCHANGED << rawResp, lastEvents, eventsResp >>

SpecMeta == NormInit /\ [][MetaNext]_vars

(***************************************************************************)
(* Properties of the normalizer (checked under SpecNorm)                   *)
(***************************************************************************)
\* every bookmaker entry of every PlayerProp, with its outcome list
EntriesOf(props) ==
  UNION { { [player |-> props[i].player,
             key |-> props[i].bookmakers[j].key,
             market |-> props[i].bookmakers[j].markets[1]] :
              j \in DOMAIN props[i].bookmakers } :
          i \in DOMAIN props }

Entries == EntriesOf(playerProps)

\* the raw outcomes a bookmaker of the response offers in one target market
RawOutcomes(book, alt) ==
  LET hit == Find(book.markets,
               LAMBDA m : m.key = getMarketApiKey(sport, statType, alt))
  IN IF hit = None THEN << >> ELSE hit[1].outcomes

\* ... in the target markets together
RawOffered(book) == Range(RawOutcomes(book, FALSE)) \cup Range(RawOutcomes(book, TRUE))

Responded == rawResp # None /\ last = "ok" /\ gameData # None

\* C1: no bookmaker entry of a PlayerProp lists two outcomes with the same
\* (name, point, description)
C1_NoDuplicateOutcomes ==
  \A e \in Entries :
    \A i, j \in DOMAIN e.market.outcomes :
      i # j => Ident(e.market.outcomes[i]) # Ident(e.market.outcomes[j])

\* C1 witness: bookmaker A repeats an identity inside its standard market and
\* has it in its alternate market as well; its entry lists it once
C1_Witness ==
  /\ Responded
  /\ \E id \in Identities :
       LET book == rawResp[1].bookmakers[1]
           std == RawOutcomes(book, FALSE)
           alt == RawOutcomes(book, TRUE)
       IN /\ id[3] # ""
          /\ Len(std) = 2 /\ Ident(std[1]) = id /\ Ident(std[2]) = id
          /\ \E k \in DOMAIN alt : Ident(alt[k]) = id
          /\ \E e \in Entries :
               /\ e.key = "A" /\ e.player = id[3]
               /\ Cardinality({ k \in DOMAIN e.market.outcomes :
                                  Ident(e.market.outcomes[k]) = id }) = 1

\* C2: the outcome list of every bookmaker entry is in non-decreasing order
\* of point
C2_SortedByPoint ==
  \A e \in Entries :
    \A i, j \in DOMAIN e.market.outcomes :
      i < j => e.market.outcomes[i].point <= e.market.outcomes[j].point

\* C2 witness: a standard market given in descending order, with no alternate
\* market next to it, appears in ascending order in the entry
C2_Witness ==
  /\ Responded
  /\ LET book == rawResp[1].bookmakers[1]
         std == RawOutcomes(book, FALSE)
     IN /\ Len(book.markets) = 1
        /\ Len(std) = 2
        /\ std[1].description = "X" /\ std[2].description = "X"
        /\ std[1].point > std[2].point
        /\ \E e \in Entries :
             /\ e.key = "A" /\ e.player = "X"
             /\ Len(e.market.outcomes) = 2
             /\ e.market.outcomes[1].point < e.market.outcomes[2].point

\* the (name, point) identities a raw bookmaker offers for a player
OfferedLines(book, player) ==
  { << o.name, o.point >> : o \in { x \in RawOffered(book) : x.description = player } }

\* the (name, point) identities of the player's merged market for a bookmaker
MergedLinesOf(entries, key, player) ==
  { << o.name, o.point >> :
      o \in UNION { Range(e.market.outcomes) :
                     e \in { x \in entries : x.key = key /\ x.player = player } } }

MergedLines(key, player) == MergedLinesOf(Entries, key, player)

Players == { id[3] : id \in Identities } \ { "" }

\* C3: for every bookmaker and player the merged market holds exactly the
\* lines the bookmaker's standard and alternate markets offer for the player,
\* under the standard market key
C3_MergedIsUnion ==
  Responded =>
    LET entries == Entries
    IN /\ \A i \in DOMAIN rawResp[1].bookmakers : \A player \in Players :
            MergedLinesOf(entries, rawResp[1].bookmakers[i].key, player)
              = OfferedLines(rawResp[1].bookmakers[i], player)
       /\ \A e \in entries :
            /\ e.market.key = getMarketApiKey(sport, statType, FALSE)
            /\ e.market.outcomes # << >>

\* C3 witness: bookmaker A has only the alternate market, on the alternate
\* path, and its lines are in the merged market
C3_Witness ==
  /\ Responded
  /\ shouldFetchAlternate(sport, statType)
  /\ LET book == rawResp[1].bookmakers[1]
     IN /\ Len(book.markets) = 1
        /\ book.markets[1].key.alt
        /\ Len(book.markets[1].outcomes) = 2
        /\ OfferedLines(book, "X") = { << "Over", 2 >>, << "Under", 1 >> }
        /\ MergedLines("A", "X") = { << "Over", 2 >>, << "Under", 1 >> }

\* the descriptions carried by the target markets of the response
Described ==
  { o.description :
      o \in UNION { RawOffered(rawResp[1].bookmakers[i]) :
                     i \in DOMAIN rawResp[1].bookmakers } } \ { "" }

\* C4: there is one PlayerProp per distinct non-empty description, and no
\* outcome without description is in any of them
C4_OnePropPerPlayer ==
  Responded =>
    LET props == playerProps
    IN /\ Len(props) = Cardinality(Described)
       /\ { props[i].player : i \in DOMAIN props } = Described
       /\ \A e \in EntriesOf(props) :
            \A k \in DOMAIN e.market.outcomes :
              e.market.outcomes[k].description # ""

\* C4 witness: two bookmakers offer the same player, a second player and an
\* outcome without description are in the response: two PlayerProps
C4_Witness ==
  /\ Responded
  /\ "X" \in { o.description : o \in RawOffered(rawResp[1].bookmakers[1]) }
  /\ "" \in { o.description : o \in RawOffered(rawResp[1].bookmakers[1]) }
  /\ { o.description : o \in RawOffered(rawResp[1].bookmakers[2]) } = { "Y", "" }
  /\ Len(playerProps) = 2
  /\ \E i \in DOMAIN playerProps :
       playerProps[i].player = "X" /\ Len(playerProps[i].bookmakers) = 1

\* the prices of a side over all outcomes of all bookmakers attached to a prop
SidePrices(prop, side) ==
  { o.price :
      o \in { x \in UNION { Range(prop.bookmakers[j].markets[1].outcomes) :
                             j \in DOMAIN prop.bookmakers } : x.name = side } }

\* C5: best-price selection returns the maximum price among all outcomes of
\* the side across the attached bookmakers, with the bookmaker and line of
\* an outcome at that price
C5_BestIsMaxOfSide ==
  LET props == playerProps
  IN \A i \in DOMAIN props : \A side \in { "Over", "Under" } :
    LET prop == props[i]
        best == findBestOdds(prop, getMarketApiKey(sport, statType, FALSE), side)
    IN SidePrices(prop, side) # {} =>
         /\ best # None
         /\ best[1].odds = SetMax(SidePrices(prop, side))
         /\ \E j \in DOMAIN prop.bookmakers :
              /\ prop.bookmakers[j].key = best[1].bookmaker
              /\ \E o \in Range(prop.bookmakers[j].markets[1].outcomes) :
                   o.name = side /\ o.point = best[1].line /\ o.price = best[1].odds

(***************************************************************************)
(* Properties of the table (checked under SpecTable)                       *)
(***************************************************************************)
\* the prices the currently selected sportsbooks show for (line, side)
ShownPrices(prop, marketKey, side, line) ==
  { CellOutcome(prop, marketKey, selectedSportsbooks[k], side, line)[1].price :
      k \in { n \in DOMAIN selectedSportsbooks :
                CellOutcome(prop, marketKey, selectedSportsbooks[n], side, line)
                  # None } }

\* C6: in the displayed list the price highlighted as best for a line and
\* side is the maximum over the currently selected sportsbooks
C6_BestAmongSelected ==
  TableView(FALSE) = "list" =>
    LET props == playerProps
    IN \A i \in DOMAIN props : \A side \in { "Over", "Under" } :
         LET marketKey == getMarketApiKey(sport, props[i].statType, FALSE)
         IN \A line \in allLines(props[i], marketKey) :
              LET shown == ShownPrices(props[i], marketKey, side, line)
              IN shown # {} =>
                   bestOddsPerLine(props[i], marketKey, side, line)
                     = Some(SetMax(shown))

\* the step ends the props fetch inflight[i]
EndsFetch(i) == i \in DOMAIN inflight /\ inflight' = RemoveAt(inflight, i)

\* the step ends a props fetch in the catch block: the fetch was rejected,
\* the status was not OK, the body did not parse, or (alternate path) the
\* body had no bookmakers list to map over
FetchThrows ==
  \E i \in DOMAIN inflight :
    /\ EndsFetch(i)
    /\ \/ last' = "failed"
       \/ last' = "malformed" /\ inflight[i].alt

\* C7: a props fetch that fails leaves the table displaying an error
C7_FailureDisplaysError ==
  [][ (\E i \in DOMAIN inflight : EndsFetch(i) /\ last' = "failed")
        => \A mobile \in BOOLEAN : (TableView(mobile))' = "error" ]_vars

\* the step issues a props fetch
IssuesFetch == Len(inflight') > Len(inflight)

\* C8: a props fetch that fails leaves gameData as it was: neither the step
\* that issues a fetch nor the step in which it fails changes gameData
C8_FailureKeepsGameData ==
  [][ (IssuesFetch \/ FetchThrows) => gameData' = gameData ]_vars

\* C8 witness: the fetch that ended last failed, with odds loaded before it
C8_Witness ==
  /\ last = "failed"
  /\ gameData # None
  /\ ~loading
  /\ Len(playerProps) > 0

\* C9: a props response without a bookmakers list is never stored as
\* gameData, so the transform never runs on one
C9_MalformedNeverStored == gameData = None \/ gameData[1].hasBookmakers

\* C10: a props response that arrives with a well-formed body becomes
\* gameData whichever request it answers, also one issued before a request
\* that is still in flight or has been answered already
C10_LastResolvedWins ==
  [][ \A i \in DOMAIN inflight :
        (EndsFetch(i) /\ last' = "ok")
          => gameData' = Some(DataOf(inflight[i], ServedBody(inflight[i]))) ]_vars

\* the request the props effect issues for the current selection
CurrentRequest ==
  PropsRequest(selectedEventId, sport, statType, selectedSportsbooks)

\* C10 witness: no fetch is in flight, the fetch that ended last stored its
\* response, and gameData is not the response for the current event, stat
\* type and sportsbooks: the request for those ended before an older one did
C10_Witness ==
  /\ inflight = << >>
  /\ selectedEventId # ""
  /\ last = "ok"
  /\ gameData # None
  /\ gameData # Some(DataOf(CurrentRequest, ServedBody(CurrentRequest)))

(***************************************************************************)
(* Requests issued by a step (checked under Spec)                          *)
(***************************************************************************)
\* the step changes what the props effect depends on besides the sport
SelectionChanges ==
  << selectedEventId, statType, selectedSportsbooks >>'
    # << selectedEventId, statType, selectedSportsbooks >>

\* the step issues exactly one props request, for the values it leaves
IssuesCurrentRequest ==
  inflight' = Append(inflight,
                     PropsRequest(selectedEventId', sport', statType',
                                  selectedSportsbooks'))

\* C11: a step issues at most one props request; every request issued is
\* for an event that is selected before or after the step; a step that
\* changes the selected event, the stat type or the sportsbooks and leaves
\* an event selected issues exactly one request, for the values it leaves
C11_OneRequestPerAction ==
  [][ /\ Len(inflight') <= Len(inflight) + 1
      /\ IssuesFetch =>
           /\ inflight'[Len(inflight')].eventId # ""
           /\ inflight'[Len(inflight')].eventId \in { selectedEventId, selectedEventId' }
      /\ (SelectionChanges /\ selectedEventId' # "") => IssuesCurrentRequest
    ]_vars

\* C11 witness: a sport change with an event selected has issued its one
\* request, for the event of the former sport, and left no event selected
C11_Witness ==
  /\ selectedEventId = ""
  /\ Len(inflight) = 1
  /\ inflight[1].sport = sport
  /\ inflight[1].eventId # ""
  /\ eventFetches # << >>
  /\ eventFetches[1].sport = sport

\* C12: the table's loading flag is true exactly while a props fetch is in
\* flight
C12_LoadingIffInFlight == loading <=> inflight # << >>

(***************************************************************************)
(* Properties of the selector (checked under SpecSelector)                 *)
(***************************************************************************)
\* the step is a change of the sport prop
SportSwitches == sport' # sport

\* the events fetch of the new sport is pending after the step
NewEventsFetchPending ==
  /\ Len(eventFetches') = Len(eventFetches) + 1
  /\ eventFetches'[Len(eventFetches')].sport = sport'

\* C13: a switch of the sport empties the selector's selected event,
\* notifies the parent with the empty id and clears the selector's error,
\* all in the step that issues the events fetch of the new sport, that is
\* before that fetch resolves.
C13_SportSwitchResets ==
  [][ SportSwitches => /\ gsSelectedEventId' = ""
                       /\ selectedEventId' = ""
                       /\ gsError' = ""
                       /\ NewEventsFetchPending ]_vars

\* a sport was switched while an event was selected (the pending request
\* captured that selection) and the fetch of the new sport has not resolved
C13_Witness ==
  /\ eventFetches # << >>
  /\ LET req == eventFetches[Len(eventFetches)]
     IN req.sport = sport /\ req.selected # ""
  /\ gsSelectedEventId = "" /\ selectedEventId = "" /\ gsError = ""

\* the step ends an events fetch
EventsFetchEnds == Len(eventFetches') < Len(eventFetches)

\* C14: whenever an events fetch resolves with a non-empty list while no
\* event is selected, the earliest event becomes the selected one and the
\* parent is notified of it, on the first load and after every sport change.
C14_AutoSelectsEarliest ==
  [][ (EventsFetchEnds /\ lastEvents' = "list" /\ gsSelectedEventId = "")
        => /\ \A j \in DOMAIN events' :
                events'[1].commence_time <= events'[j].commence_time
           /\ gsSelectedEventId' = events'[1].id
           /\ selectedEventId' = events'[1].id ]_vars

\* the step is a click on Retry: the error view is left for the loading
\* view while the sport stays
RetryClicked ==
  /\ ~gsLoading /\ gsError # ""
  /\ gsLoading' /\ sport' = sport

\* C15: after a failed events load, Retry issues a new events fetch for the
\* current sport (so that the selector leaves the loading state when that
\* fetch ends).
C15_RetryRefetches ==
  [][ RetryClicked => /\ Len(eventFetches') = Len(eventFetches) + 1
                      /\ eventFetches'[Len(eventFetches')].sport = sport ]_vars

\* C16: an events fetch that succeeds with an empty array leaves the
\* selector with no error, no selected event and loading false: the state
\* that shows the "no games" message.
C16_EmptyListShowsNoGames ==
  [][ (EventsFetchEnds /\ lastEvents' = "empty")
        => /\ gsError' = ""
           /\ gsSelectedEventId' = ""
           /\ ~gsLoading'
           /\ SelectorView' = "no-games" ]_vars

(***************************************************************************)
(* Properties of the PlayerProp records (checked under SpecNorm)           *)
(***************************************************************************)
\* the Over outcomes of a PlayerProp, bookmaker entries in their order and
\* the outcomes of each entry in their order
RECURSIVE OversOfEntries(_)
OversOfEntries(bookmakers) ==
  IF bookmakers = << >> THEN << >>
  ELSE SelectSeq(Head(bookmakers).markets[1].outcomes, LAMBDA o : o.name = "Over")
       \o OversOfEntries(Tail(bookmakers))

OversOf(prop) == OversOfEntries(prop.bookmakers)

\* C17: team is the home team of the payload; line is the point of the
\* player's first Over outcome, and it is 0 only when no bookmaker attached
\* to the player offers an Over outcome (or that point is 0).
C17_TeamAndLine ==
  Responded =>
    \A i \in DOMAIN playerProps :
      LET prop == playerProps[i]
          overs == OversOf(prop)
      IN /\ prop.team = rawResp[1].home_team
         /\ overs # << >> => prop.line = overs[1].point
         /\ prop.line = 0 => overs = << >> \/ overs[1].point = 0

\* the keys of the bookmakers of the payload that offer the player at least
\* one outcome in the target markets, in payload order
RECURSIVE OfferingKeys(_, _)
OfferingKeys(bookmakers, player) ==
  IF bookmakers = << >> THEN << >>
  ELSE (IF \E o \in RawOffered(Head(bookmakers)) : o.description = player
        THEN << Head(bookmakers).key >> ELSE << >>)
       \o OfferingKeys(Tail(bookmakers), player)

\* C18: every PlayerProp has one bookmaker entry for each bookmaker of the
\* payload that offers the player an attributable outcome in the target
\* markets, none for the others, in payload order; every entry holds one
\* market, keyed by the standard market key.
C18_OneEntryPerOfferingBookmaker ==
  Responded =>
    \A i \in DOMAIN playerProps :
      LET prop == playerProps[i]
      IN /\ [j \in DOMAIN prop.bookmakers |-> prop.bookmakers[j].key]
              = OfferingKeys(rawResp[1].bookmakers, prop.player)
         /\ \A j \in DOMAIN prop.bookmakers :
              /\ Len(prop.bookmakers[j].markets) = 1
              /\ prop.bookmakers[j].markets[1].key
                   = getMarketApiKey(sport, statType, FALSE)

\* C18 witness: both bookmakers offer X (B in its alternate market only),
\* A alone offers Y: X has the entries of A and B in that order, Y that of A
C18_Witness ==
  /\ Responded
  /\ OfferingKeys(rawResp[1].bookmakers, "X") = << "A", "B" >>
  /\ OfferingKeys(rawResp[1].bookmakers, "Y") = << "A" >>
  /\ \E i, k \in DOMAIN playerProps :
       /\ playerProps[i].player = "X" /\ Len(playerProps[i].bookmakers) = 2
       /\ playerProps[i].bookmakers[2].key = "B"
       /\ playerProps[k].player = "Y" /\ Len(playerProps[k].bookmakers) = 1

(***************************************************************************)
(* Properties of search and sort (checked under SpecFilter)                *)
(***************************************************************************)
\* part occurs in chars, letters compared without regard to case
ContainsIgnoringCase(chars, part) ==
  \E k \in 0..(Len(chars) - Len(part)) :
    \A n \in 1..Len(part) : LowerChar(chars[k + n]) = LowerChar(part[n])

\* the PlayerProps whose player or team name contains the query
Matching ==
  { prop \in Range(playerProps) :
      \/ ContainsIgnoringCase(Chars(prop.player), searchQuery)
      \/ ContainsIgnoringCase(Chars(prop.team), searchQuery) }

\* C19: the displayed list holds exactly the PlayerProps whose player name
\* or team name contains the query without regard to case, each once: none
\* when nothing matches, all of them when the query is empty.
C19_FilterKeepsMatches ==
  /\ Range(filteredProps) = Matching
  /\ Len(filteredProps) = Cardinality(Matching)
  /\ searchQuery = << >> =>
       /\ Range(filteredProps) = Range(playerProps)
       /\ Len(filteredProps) = Len(playerProps)

\* C19 witness: two players are loaded and the query "X", typed in upper
\* case, keeps the player X alone
C19_Witness ==
  /\ Responded
  /\ searchQuery = << "X" >>
  /\ Len(playerProps) = 2
  /\ Len(filteredProps) = 1 /\ filteredProps[1].player = "X"

\* C20: the displayed list is in the order of the sort mode: by player name
\* ascending in name mode, by best Over price descending in best-odds mode,
\* where a player without best Over price counts as 0.
C20_OrderedBySortMode ==
  LET shown == filteredProps
  IN \A i, j \in DOMAIN shown :
       i < j =>
         /\ sortBy = "name" =>
              localeCompare(shown[i].player, shown[j].player) <= 0
         /\ sortBy = "best-odds" =>
              BestOverOdds(shown[i], sport, statType)
                >= BestOverOdds(shown[j], sport, statType)

\* C20 witness: in best-odds mode the player without Over price is listed
\* before the player whose best Over price is negative, who came first in
\* the payload
C20_Witness ==
  /\ Responded
  /\ sortBy = "best-odds"
  /\ Len(playerProps) = 2 /\ Len(filteredProps) = 2
  /\ playerProps[1].player = filteredProps[2].player
  /\ findBestOdds(filteredProps[1], getMarketApiKey(sport, statType, FALSE),
                  "Over") = None
  /\ BestOverOdds(filteredProps[2], sport, statType) < 0

\* what a search and sort without side effect displays: the filter and the
\* stable sort applied to the list as the transform built it
PureList == filteredPropsOf(playerProps, searchQuery, sortBy, sport, statType)

\* C21: search and sort are pure: the normalized list is as the transform
\* built it whatever was searched and sorted before, and the displayed list,
\* ties included, is determined by gameData, stat type, sport, query and
\* sort mode alone.
C21_SearchSortPure ==
  /\ propsArray = playerProps
  /\ filteredProps = PureList

\* the payload lists Y before X and neither has an Over price: they tie in
\* best-odds mode
TiedPayload ==
  /\ Responded /\ statType = "Points" /\ rawResp[1].home_team = "Home"
  /\ rawResp[1].bookmakers[2].markets = << >>
  /\ LET os == rawResp[1].bookmakers[1].markets[1].outcomes
     IN /\ Len(os) = 2
        /\ Ident(os[1]) = << "Under", 1, "Y" >>
        /\ Ident(os[2]) = << "Under", 1, "X" >>

\* the tied payload in best-odds mode without query, the list having been
\* sorted by name before: X is displayed first
C21_AfterNameSort ==
  /\ TiedPayload /\ searchQuery = << >> /\ sortBy = "best-odds"
  /\ inPlaceSorts = << "name", "best-odds" >>
  /\ filteredProps[1].player = "X"

\* the same payload, query and mode, the response having arrived in
\* best-odds mode: Y is displayed first
C21_Direct ==
  /\ TiedPayload /\ searchQuery = << >> /\ sortBy = "best-odds"
  /\ inPlaceSorts = << "best-odds" >>
  /\ filteredProps[1].player = "Y"

(***************************************************************************)
(* Properties of the event list (checked under SpecSelector)               *)
(***************************************************************************)
\* how often x occurs in a sequence
Occurrences(seq, x) == Cardinality({ k \in DOMAIN seq : seq[k] = x })

IsPermutation(a, b) ==
  /\ Len(a) = Len(b)
  /\ \A x \in Range(a) \cup Range(b) : Occurrences(a, x) = Occurrences(b, x)

\* the events of the groups, group after group
RECURSIVE Flatten(_)
Flatten(groups) ==
  IF groups = << >> THEN << >> ELSE Head(groups).events \o Flatten(Tail(groups))

\* C22: after a successful events fetch the held list is the response in
\* non-decreasing commence time; the date groups partition the held list:
\* each event is in the one group of its date, the events of a group and the
\* groups themselves are in ascending order of time.
C22_SortedAndGrouped ==
  /\ lastEvents \in { "list", "empty" } =>
       /\ IsPermutation(events, eventsResp[1])
       /\ \A i, j \in DOMAIN events :
            i < j => events[i].commence_time <= events[j].commence_time
  /\ LET groups == groupedEvents
     IN /\ Flatten(groups) = events
        /\ \A g, h \in DOMAIN groups : g # h => groups[g].date # groups[h].date
        /\ \A g \in DOMAIN groups : \A k \in DOMAIN groups[g].events :
             toDateString(groups[g].events[k].commence_time) = groups[g].date

\* C22 witness: the response lists e3 (next day), e2, e1; held are e1, e2, e3
\* in the groups of day 1 (e1, e2) and day 2 (e3)
C22_Witness ==
  /\ lastEvents = "list"
  /\ eventsResp = Some(<< Event("e3"), Event("e2"), Event("e1") >>)
  /\ events = << Event("e1"), Event("e2"), Event("e3") >>
  /\ Len(groupedEvents) = 2
  /\ groupedEvents[1].events = << Event("e1"), Event("e2") >>
  /\ groupedEvents[2].events = << Event("e3") >>

(***************************************************************************)
(* Deduplication across the two markets (checked under SpecNorm)           *)
(***************************************************************************)
\* the first outcome of a list with the identity, as an optional value
FirstWithIdent(outcomes, ident) ==
  Find(outcomes, LAMBDA o : Ident(o) = ident)

\* C23: when the standard and the alternate market of a bookmaker both list
\* an identity (name, point, description), the outcome kept for it is the
\* first one of the standard market: its price is the one in the entry,
\* whatever the price in the alternate market.
C23_StandardPriceKept ==
  Responded =>
    \A b \in DOMAIN rawResp[1].bookmakers :
      LET book == rawResp[1].bookmakers[b]
          std == RawOutcomes(book, FALSE)
          alt == RawOutcomes(book, TRUE)
      IN \A e \in { x \in Entries : x.key = book.key } :
           \A k \in DOMAIN e.market.outcomes :
             LET o == e.market.outcomes[k]
                 first == FirstWithIdent(std, Ident(o))
             IN (first # None /\ FirstWithIdent(alt, Ident(o)) # None)
                  => o.price = first[1].price

\* C23 witness: bookmaker A lists Over 1 for X at -110 in the standard and
\* at 150 in the alternate market; its entry for X holds Over 1 at -110 only
C23_Witness ==
  /\ Responded
  /\ LET book == rawResp[1].bookmakers[1]
         std == RawOutcomes(book, FALSE)
         alt == RawOutcomes(book, TRUE)
     IN /\ std # << >> /\ Ident(std[1]) = << "Over", 1, "X" >>
        /\ alt # << >> /\ Ident(alt[1]) = << "Over", 1, "X" >>
        /\ std[1].price < alt[1].price
        /\ \E e \in Entries :
             /\ e.key = "A" /\ e.player = "X"
             /\ \E k \in DOMAIN e.market.outcomes :
                  e.market.outcomes[k].price = std[1].price
             /\ \A k \in DOMAIN e.market.outcomes :
                  e.market.outcomes[k].price # alt[1].price

(***************************************************************************)
(* The selection of the selector and of its parent                         *)
(***************************************************************************)
\* the step changes the selection of the selector or that of the parent
SelectedEventChanges ==
  gsSelectedEventId' # gsSelectedEventId \/ selectedEventId' # selectedEventId

\* the step is the reset of a sport change, the auto-select of an events
\* fetch that resolved, or a choice among the held events
SelectionStep ==
  \/ SportSwitches /\ gsSelectedEventId' = ""
  \/ /\ EventsFetchEnds /\ sport' = sport
     /\ events' # << >> /\ gsSelectedEventId' = events'[1].id
  \/ /\ UNCHANGED << sport, events, eventFetches >>
     /\ \E i \in DOMAIN events : events[i].id = gsSelectedEventId'

\* C24: the selected event of the selector and the id last passed to
\* onGameSelect (the one the parent stores) are equal in every state; a
\* step that changes either is a sport reset, an auto-select or a manual
\* select, and it leaves both at the same id.
C24_SelectionAgrees ==
  /\ gsSelectedEventId = selectedEventId
  /\ [][ /\ gsSelectedEventId' = selectedEventId'
         /\ SelectedEventChanges => SelectionStep ]_vars

\* C24 witness: e2 was chosen by hand while e1, the earliest event, is held
\* and no fetch is pending: selector and parent both hold e2
C24_Witness ==
  /\ eventFetches = << >>
  /\ events # << >> /\ events[1].id = "e1"
  /\ lastEvents = "list"
  /\ gsSelectedEventId = "e2" /\ selectedEventId = "e2"

\* the event with the selected id is in the held list
SelectedEventHeld == \E i \in DOMAIN events : events[i].id = gsSelectedEventId

\* C25: whenever no events fetch is in flight, the selected event id is
\* empty or the id of an event of the held list.
C25_SelectionInHeldList ==
  eventFetches = << >> => (gsSelectedEventId = "" \/ SelectedEventHeld)

\* C25, the state that refutes it: an event is selected, no fetch is in
\* flight, the fetch that ended last failed and the held list is empty
C25_SelectedButNoneHeld ==
  /\ eventFetches = << >>
  /\ lastEvents = "failed"
  /\ events = << >>
  /\ gsSelectedEventId # "" /\ selectedEventId = gsSelectedEventId

(***************************************************************************)
(* Writes of gameData (checked under Spec)                                 *)
(***************************************************************************)
\* the step ends a props fetch whose response reached setGameData
PropsFetchStores ==
  /\ Len(inflight') < Len(inflight)
  /\ last' # "failed"
  /\ gameData' # None
  /\ sport' = sport

\* C26: a change of the sport, with its reset of the selected event, leaves
\* gameData as it is: the odds of the event selected before stay held until
\* a later props fetch succeeds; gameData is written by no step but the end
\* of a props fetch that succeeded.
C26_OnlyPropsFetchWritesGameData ==
  [][ /\ SportSwitches => (gameData' = gameData /\ selectedEventId' = "")
      /\ gameData' # gameData => PropsFetchStores ]_vars

\* C26 witness: odds are held, no event is selected and no props fetch is
\* pending: the sport changed after the odds were loaded and they stayed
C26_Witness ==
  /\ gameData # None /\ gameData[1].hasBookmakers
  /\ last = "ok"
  /\ selectedEventId = "" /\ gsSelectedEventId = ""
  /\ inflight = << >>
  /\ eventFetches # << >>

(***************************************************************************)
(* The card view (checked under SpecCards)                                 *)
(***************************************************************************)
\* C27: in the card view of a narrow viewport, whenever the filtered list
\* is not empty activePlayerIndex is an index of it (0-based: less than its
\* length), whatever navigation, query edits, sort changes and reloads
\* came before.
C27_ActiveIndexValid ==
  (Mounted /\ isMobile /\ ~loading /\ filteredProps # << >>)
    => activePlayerIndex < Len(filteredProps)

\* C27, the state that refutes it: the second card was reached, then a query
\* left one player; the list is not empty and there is no current player
C27_NoCurrentPlayer ==
  /\ Mounted /\ isMobile /\ ~loading
  /\ searchQuery # << >>
  /\ Len(filteredProps) = 1
  /\ activePlayerIndex = 1
  /\ currentPlayer = None

(***************************************************************************)
(* Cache status and API usage (checked under SpecMeta)                     *)
(***************************************************************************)
\* the step writes another cache status or another API usage
MetadataChanges == cacheStatus' # cacheStatus \/ apiUsage' # apiUsage

\* the step ends a props fetch that reached setGameData
FetchStoresPayload ==
  (\E i \in DOMAIN inflight : EndsFetch(i)) /\ ~FetchThrows

\* one of the two quota headers of the response read by the step is absent
QuotaHeaderAbsent ==
  lastHeaders'[1].remaining = "" \/ lastHeaders'[1].used = ""

\* C28: cacheStatus and apiUsage are written only by a props fetch that
\* also stores its payload as gameData; a fetch that ends in the catch block
\* leaves both as they were; a fetch that stores its payload replaces
\* apiUsage only when both quota headers are present.
C28_MetadataOnlyWithPayload ==
  [][ /\ MetadataChanges => FetchStoresPayload
      /\ FetchThrows => ~MetadataChanges
      /\ (FetchStoresPayload /\ QuotaHeaderAbsent) => apiUsage' = apiUsage
    ]_vars

\* C28, the state that refutes it: the fetch that ended last was on the
\* alternate path and threw on a body without a bookmakers list; gameData
\* was never written, cacheStatus and apiUsage hold the response's headers
C28_MetadataWithoutPayload ==
  /\ last = "malformed"
  /\ gameData = None
  /\ lastHeaders # None
  /\ cacheStatus = CacheStatusOf(lastHeaders[1])
  /\ cacheStatus # InitialCacheStatus
  /\ apiUsage # None

\* the quota clause of C28 alone
QuotaClause ==
  [][ ((\E i \in DOMAIN inflight : EndsFetch(i)) /\ last' # "failed"
         /\ QuotaHeaderAbsent) => apiUsage' = apiUsage ]_vars

\* the first clause of C28 with the fetches that read a response in place
\* of those that store their payload
MetadataOnlyWithResponse ==
  [][ MetadataChanges
        => ((\E i \in DOMAIN inflight : EndsFetch(i)) /\ last' # "failed")
    ]_vars

====
